---- MODULE Spec2Model ----
(***************************************************************************)
(* A model of the THSR booking client (src/src/lib.rs, main.rs, schema.rs).*)
(*                                                                         *)
(* Rust Strings are sequences of one-character strings, so that parsing,   *)
(* zero padding, trimming and the byte-wise String ordering are computed,  *)
(* not assumed.  Option<T> is a record: None, or Some(v).                  *)
(***************************************************************************)
EXTENDS Integers, Sequences, FiniteSets, TLC

(***************************************************************************)
(* Bounds of the model.                                                    *)
(***************************************************************************)
\* the largest explicit passenger count drawn (u8 in the code)
MaxTicketArg == 12
\* the largest explicit seat preference / class type drawn (usize in the code)
MaxPrefArg == 4
\* the largest number of error banners on a page
MaxBanners == 2

(***************************************************************************)
(* Option<T>                                                               *)
(***************************************************************************)
None == [some |-> FALSE]
Some(v) == [some |-> TRUE, val |-> v]

(***************************************************************************)
(* Characters and strings                                                  *)
(***************************************************************************)
Digits == <<"0", "1", "2", "3", "4", "5", "6", "7", "8", "9">>

IsDigit(c) == \E i \in 1..10 : Digits[i] = c

DigitVal(c) == (CHOOSE i \in 1..10 : Digits[i] = c) - 1

\* the byte of a character, for the characters the model draws
Ord(c) ==
    IF IsDigit(c) THEN 48 + DigitVal(c)
    ELSE CASE c = "\n" -> 10
           [] c = " " -> 32
           [] c = "+" -> 43
           [] c = "-" -> 45
           [] c = "/" -> 47
           [] c = "A" -> 65
           [] c = "B" -> 66
           [] c = "E" -> 69
           [] c = "F" -> 70
           [] c = "H" -> 72
           [] c = "N" -> 78
           [] c = "P" -> 80
           [] c = "W" -> 87
           [] c = "n" -> 110
           [] c = "x" -> 120
           [] c = "y" -> 121

\* u8 as char, for the five ticket letters
Chr(b) ==
    CASE b = 69 -> "E"
      [] b = 70 -> "F"
      [] b = 72 -> "H"
      [] b = 80 -> "P"
      [] b = 87 -> "W"

IsSpace(c) == c = " " \/ c = "\n"

RECURSIVE TrimStart(_)
TrimStart(s) ==
    IF s # <<>> /\ IsSpace(Head(s)) THEN TrimStart(Tail(s)) ELSE s

RECURSIVE TrimEnd(_)
TrimEnd(s) ==
    IF s # <<>> /\ IsSpace(s[Len(s)]) THEN TrimEnd(SubSeq(s, 1, Len(s) - 1)) ELSE s

\* str::trim
Trim(s) == TrimEnd(TrimStart(s))

\* Ord for str: byte-wise lexicographic order; -1, 0 or 1
RECURSIVE StrCmp(_, _)
StrCmp(a, b) ==
    IF a = <<>> /\ b = <<>> THEN 0
    ELSE IF a = <<>> THEN -1
    ELSE IF b = <<>> THEN 1
    ELSE IF Ord(Head(a)) < Ord(Head(b)) THEN -1
    ELSE IF Ord(Head(a)) > Ord(Head(b)) THEN 1
    ELSE StrCmp(Tail(a), Tail(b))

StrGe(a, b) == StrCmp(a, b) >= 0

StrLe(a, b) == StrCmp(a, b) <= 0

\* str::split(sep): the parts between the separators, empty parts kept
RECURSIVE Split(_, _)
Split(s, sep) ==
    IF \A i \in 1..Len(s) : s[i] # sep THEN <<s>>
    ELSE LET i == CHOOSE k \in 1..Len(s) :
                      s[k] = sep /\ \A j \in 1..(k - 1) : s[j] # sep
         IN <<SubSeq(s, 1, i - 1)>> \o Split(SubSeq(s, i + 1, Len(s)), sep)

\* [String]::join(sep)
RECURSIVE Join(_, _)
Join(parts, sep) ==
    IF parts = <<>> THEN <<>>
    ELSE IF Len(parts) = 1 THEN parts[1]
    ELSE parts[1] \o sep \o Join(Tail(parts), sep)

\* the value of a string of digits
RECURSIVE DigitsVal(_)
DigitsVal(s) ==
    IF s = <<>> THEN 0
    ELSE 10 * DigitsVal(SubSeq(s, 1, Len(s) - 1)) + DigitVal(s[Len(s)])

\* str::parse::<uN>() with N bits: an optional '+', then one or more digits,
\* no overflow; Err is None
ParseUInt(s, bits) ==
    LET body == IF s # <<>> /\ Head(s) = "+" THEN Tail(s) ELSE s
    IN IF body = <<>> \/ \E i \in 1..Len(body) : ~IsDigit(body[i]) THEN None
       ELSE IF DigitsVal(body) > 2^bits - 1 THEN None
       ELSE Some(DigitsVal(body))

\* str::parse::<usize>() and ::<u32>() for inputs of at most nine
\* characters, which overflow neither
ParseUsize(s) ==
    LET body == IF s # <<>> /\ Head(s) = "+" THEN Tail(s) ELSE s
    IN IF body = <<>> \/ \E i \in 1..Len(body) : ~IsDigit(body[i]) THEN None
       ELSE Some(DigitsVal(body))

\* format!("{}", n)
RECURSIVE DecStr(_)
DecStr(n) ==
    IF n < 10 THEN <<Digits[n + 1]>>
    ELSE DecStr(n \div 10) \o <<Digits[(n % 10) + 1]>>

\* the zero padding of format!("{:0w}", n)
RECURSIVE PadZero(_, _)
PadZero(s, w) == IF Len(s) >= w THEN s ELSE PadZero(<<"0">> \o s, w)

(***************************************************************************)
(* get_input: the line typed at a prompt, trimmed; the default when it is  *)
(* empty or does not parse                                                 *)
(***************************************************************************)
get_input_String(line, default) ==
    IF Trim(line) = <<>> THEN default ELSE Trim(line)

get_input_usize(line, default) ==
    IF Trim(line) = <<>> THEN default
    ELSE IF ParseUsize(Trim(line)).some THEN ParseUsize(Trim(line)).val
    ELSE default

get_input_u8(line, default) ==
    IF Trim(line) = <<>> THEN default
    ELSE IF ParseUInt(Trim(line), 8).some THEN ParseUInt(Trim(line), 8).val
    ELSE default

(***************************************************************************)
(* schema.rs: the reference tables                                         *)
(***************************************************************************)
STATION_MAP ==
    <<"Nangang", "Taipei", "Banqiao", "Taoyuan", "Hsinchu", "Miaoli",
      "Taichung", "Changhua", "Yunlin", "Chiayi", "Tainan", "Zuouing">>

TIME_TABLE ==
    <<
       <<"1", "2", "0", "1", "A">>, <<"1", "2", "3", "0", "A">>, <<"6", "0", "0", "A">>,
       <<"6", "3", "0", "A">>, <<"7", "0", "0", "A">>, <<"7", "3", "0", "A">>,
       <<"8", "0", "0", "A">>, <<"8", "3", "0", "A">>, <<"9", "0", "0", "A">>,
       <<"9", "3", "0", "A">>, <<"1", "0", "0", "0", "A">>, <<"1", "0", "3", "0", "A">>,
       <<"1", "1", "0", "0", "A">>, <<"1", "1", "3", "0", "A">>, <<"1", "2", "0", "0", "N">>,
       <<"1", "2", "3", "0", "P">>, <<"1", "0", "0", "P">>, <<"1", "3", "0", "P">>,
       <<"2", "0", "0", "P">>, <<"2", "3", "0", "P">>, <<"3", "0", "0", "P">>,
       <<"3", "3", "0", "P">>, <<"4", "0", "0", "P">>, <<"4", "3", "0", "P">>,
       <<"5", "0", "0", "P">>, <<"5", "3", "0", "P">>, <<"6", "0", "0", "P">>,
       <<"6", "3", "0", "P">>, <<"7", "0", "0", "P">>, <<"7", "3", "0", "P">>,
       <<"8", "0", "0", "P">>, <<"8", "3", "0", "P">>, <<"9", "0", "0", "P">>,
       <<"9", "3", "0", "P">>, <<"1", "0", "0", "0", "P">>, <<"1", "0", "3", "0", "P">>,
       <<"1", "1", "0", "0", "P">>, <<"1", "1", "3", "0", "P">>
    >>

\* enum TicketType, #[repr(u8)]
TicketType ==
    [Adult |-> 70, Child |-> 72, Disabled |-> 87, Elder |-> 69, College |-> 80]

TicketTypes == {"Adult", "Child", "Disabled", "Elder", "College"}

(***************************************************************************)
(* booking_flow::BookingPayload                                            *)
(***************************************************************************)
\* a default adult count of 0
default_adult_ticket_num_zero == <<"0", "F">>

default_adult_ticket_num == <<"1", "F">>

default_child_ticket_num == <<"0", "H">>

default_disabled_ticket_num == <<"0", "W">>

default_elder_ticket_num == <<"0", "E">>

default_college_ticket_num == <<"0", "P">>

\* impl Default for BookingPayload
DefaultBookingPayload ==
    [start_station |-> 2,
     dest_station |-> 12,
     search_by |-> <<"1">>,
     types_of_trip |-> 0,
     outbound_date |-> <<"2", "0", "2", "3", "/", "1", "0", "/", "0", "1">>,
     outbound_time |-> <<"0", "8", ":", "0", "0">>,
     security_code |-> <<"1", "2", "3", "4">>,
     seat_prefer |-> 0,
     form_mark |-> <<>>,
     class_type |-> 0,
     inbound_date |-> None,
     inbound_time |-> None,
     to_train_id |-> None,
     back_train_id |-> None,
     adult_ticket_num |-> default_adult_ticket_num,
     child_ticket_num |-> default_child_ticket_num,
     disabled_ticket_num |-> default_disabled_ticket_num,
     elder_ticket_num |-> default_elder_ticket_num,
     college_ticket_num |-> default_college_ticket_num]

\* the result of a call that may panic: the value it returns, or the panic
Returned(v) == [panicked |-> FALSE, val |-> v]

Panicked == [panicked |-> TRUE]

\* normalize_date without the zero padding: format!("{}/{}/{}", ..)
normalize_date_unpadded(input) ==
    LET parts == Split(input, "/")
    IN IF Len(parts) # 3 THEN None
       ELSE LET year == ParseUInt(parts[1], 16)
                month == ParseUInt(parts[2], 8)
                day == ParseUInt(parts[3], 8)
            IN IF ~year.some \/ ~month.some \/ ~day.some THEN None
               ELSE IF /\ year.val >= 1000
                       /\ month.val >= 1 /\ month.val <= 12
                       /\ day.val >= 1 /\ day.val <= 31
                    THEN Some(DecStr(year.val) \o <<"/">> \o DecStr(month.val)
                              \o <<"/">> \o DecStr(day.val))
                    ELSE None

\* normalize_date
normalize_date(input) ==
    LET parts == Split(input, "/")
    IN IF Len(parts) # 3 THEN None
       ELSE LET year == ParseUInt(parts[1], 16)
                month == ParseUInt(parts[2], 8)
                day == ParseUInt(parts[3], 8)
            IN IF ~year.some \/ ~month.some \/ ~day.some THEN None
               ELSE IF /\ year.val >= 1000
                       /\ month.val >= 1 /\ month.val <= 12
                       /\ day.val >= 1 /\ day.val <= 31
                    THEN Some(PadZero(DecStr(year.val), 4) \o <<"/">>
                              \o PadZero(DecStr(month.val), 2) \o <<"/">>
                              \o PadZero(DecStr(day.val), 2))
                    ELSE None

\* BookingPayload::select_date; `line` is what is typed when no date is given
select_date(p, start_date, end_date, date, line) ==
    LET typed == IF date.some THEN date.val
                 ELSE get_input_String(line, end_date)
        input == IF normalize_date(typed).some THEN normalize_date(typed).val
                 ELSE end_date
    IN IF input = <<>> THEN [p EXCEPT !.outbound_date = end_date]
       ELSE IF StrGe(input, start_date) /\ StrLe(input, end_date)
            THEN [p EXCEPT !.outbound_date = input]
            ELSE [p EXCEPT !.outbound_date = end_date]

\* show_time_table without the exception made for 1230P
show_time_table_line_all_pm(idx, t_str) ==
    LET parsed == ParseUInt(SubSeq(t_str, 1, Len(t_str) - 1), 16).val
        t_int == IF t_str[Len(t_str)] = "A" /\ (parsed \div 100) = 12
                 THEN parsed % 1200
                 ELSE IF t_str[Len(t_str)] = "P" THEN parsed + 1200
                 ELSE parsed
        formatted_time == PadZero(DecStr(t_int), 4)
    IN DecStr(idx + 1) \o <<".", " ">>
       \o SubSeq(formatted_time, 1, Len(formatted_time) - 2) \o <<":">>
       \o SubSeq(formatted_time, Len(formatted_time) - 1, Len(formatted_time))

\* main.rs show_time_table: the line printed for the token t_str at index
\* idx, counted from 0
show_time_table_line(idx, t_str) ==
    LET parsed == ParseUInt(SubSeq(t_str, 1, Len(t_str) - 1), 16).val
        t_int == IF t_str[Len(t_str)] = "A" /\ (parsed \div 100) = 12
                 THEN parsed % 1200
                 ELSE IF parsed # 1230 /\ t_str[Len(t_str)] = "P"
                      THEN parsed + 1200
                 ELSE parsed
        formatted_time == PadZero(DecStr(t_int), 4)
    IN DecStr(idx + 1) \o <<".", " ">>
       \o SubSeq(formatted_time, 1, Len(formatted_time) - 2) \o <<":">>
       \o SubSeq(formatted_time, Len(formatted_time) - 1, Len(formatted_time))

\* main.rs show_time_table: what --list-time-table prints
show_time_table ==
    [i \in 1..Len(TIME_TABLE) |-> show_time_table_line(i - 1, TIME_TABLE[i])]

\* BookingPayload::select_time without an explicit time: the line it prints
\* for the token t_str at index idx, counted from 0
select_time_line(idx, t_str) ==
    LET parsed == ParseUInt(SubSeq(t_str, 1, Len(t_str) - 1), 16).val
        t_int == IF t_str[Len(t_str)] = "A" /\ (parsed \div 100) = 12
                 THEN parsed % 1200
                 ELSE IF parsed # 1230 /\ t_str[Len(t_str)] = "P"
                      THEN parsed + 1200
                 ELSE parsed
        formatted_time == PadZero(DecStr(t_int), 4)
    IN DecStr(idx + 1) \o <<".", " ">>
       \o SubSeq(formatted_time, 1, Len(formatted_time) - 2) \o <<":">>
       \o SubSeq(formatted_time, Len(formatted_time) - 1, Len(formatted_time))

\* what select_time prints before its prompt
select_time_listing ==
    [i \in 1..Len(TIME_TABLE) |-> select_time_line(i - 1, TIME_TABLE[i])]

\* BookingPayload::select_time.  With opt = 0 the index opt - 1 underflows
\* usize: a panic on the subtraction (overflow checks on) or on the index
\* usize::MAX (overflow checks off); both builds panic.
select_time(p, time, line) ==
    LET opt == IF time.some THEN time.val ELSE get_input_usize(line, 10)
    IN IF opt > Len(TIME_TABLE)
       THEN Returned([p EXCEPT !.outbound_time = TIME_TABLE[9 + 1]])
       ELSE IF opt - 1 < 0 THEN Panicked
       ELSE Returned([p EXCEPT !.outbound_time = TIME_TABLE[(opt - 1) + 1]])

\* select_ticket_num clamping a count above 10 to 10 instead of 1
select_ticket_num_clamp10(p, ticket_type, val, line) ==
    LET v0 == IF val.some THEN val.val ELSE get_input_u8(line, 1)
        v == IF v0 > 10 THEN 10 ELSE v0
        s == DecStr(v) \o <<Chr(TicketType[ticket_type])>>
    IN CASE ticket_type = "Adult" -> [p EXCEPT !.adult_ticket_num = s]
         [] ticket_type = "Child" -> [p EXCEPT !.child_ticket_num = s]
         [] ticket_type = "Disabled" -> [p EXCEPT !.disabled_ticket_num = s]
         [] ticket_type = "Elder" -> [p EXCEPT !.elder_ticket_num = s]
         [] ticket_type = "College" -> [p EXCEPT !.college_ticket_num = s]

\* select_ticket_num putting the adult count to 0 when another type is set
select_ticket_num_reset_adult(p, ticket_type, val, line) ==
    LET v0 == IF val.some THEN val.val ELSE get_input_u8(line, 1)
        v == IF v0 > 10 THEN 1 ELSE v0
        s == DecStr(v) \o <<Chr(TicketType[ticket_type])>>
        q == [p EXCEPT !.adult_ticket_num = <<"0", "F">>]
    IN CASE ticket_type = "Adult" -> [p EXCEPT !.adult_ticket_num = s]
         [] ticket_type = "Child" -> [q EXCEPT !.child_ticket_num = s]
         [] ticket_type = "Disabled" -> [q EXCEPT !.disabled_ticket_num = s]
         [] ticket_type = "Elder" -> [q EXCEPT !.elder_ticket_num = s]
         [] ticket_type = "College" -> [q EXCEPT !.college_ticket_num = s]

\* BookingPayload::select_ticket_num
select_ticket_num(p, ticket_type, val, line) ==
    LET v0 == IF val.some THEN val.val ELSE get_input_u8(line, 1)
        v == IF v0 > 10 THEN 1 ELSE v0
        s == DecStr(v) \o <<Chr(TicketType[ticket_type])>>
    IN CASE ticket_type = "Adult" -> [p EXCEPT !.adult_ticket_num = s]
         [] ticket_type = "Child" -> [p EXCEPT !.child_ticket_num = s]
         [] ticket_type = "Disabled" -> [p EXCEPT !.disabled_ticket_num = s]
         [] ticket_type = "Elder" -> [p EXCEPT !.elder_ticket_num = s]
         [] ticket_type = "College" -> [p EXCEPT !.college_ticket_num = s]

\* select_seat_prefer without the range check
select_seat_prefer_unchecked(p, prefer, line) ==
    LET input == IF prefer.some THEN prefer.val ELSE get_input_usize(line, 0)
    IN [p EXCEPT !.seat_prefer = input]

\* BookingPayload::select_seat_prefer
select_seat_prefer(p, prefer, line) ==
    LET input == IF prefer.some THEN prefer.val ELSE get_input_usize(line, 0)
    IN IF input > 2 THEN [p EXCEPT !.seat_prefer = 0]
       ELSE [p EXCEPT !.seat_prefer = input]

\* BookingPayload::select_class_type; the stored `input as u8` is below 2
select_class_type(p, class_type, line) ==
    LET input == IF class_type.some THEN class_type.val
                 ELSE get_input_usize(line, 0)
    IN IF input > 1 THEN [p EXCEPT !.class_type = 0]
       ELSE [p EXCEPT !.class_type = input]

\* BookingPayload::select_start_station; `from as u8` keeps the low 8 bits
select_start_station(p, from, line) ==
    IF from.some THEN [p EXCEPT !.start_station = from.val % 2^8]
    ELSE LET input == get_input_usize(line, 2)
         IN IF input > 0 /\ input <= Len(STATION_MAP)
            THEN [p EXCEPT !.start_station = input]
            ELSE [p EXCEPT !.start_station = 2]

\* BookingPayload::select_dest_station
select_dest_station(p, to, line) ==
    IF to.some THEN [p EXCEPT !.dest_station = to.val % 2^8]
    ELSE LET input == get_input_usize(line, 12)
         IN IF input > 0 /\ input <= Len(STATION_MAP)
            THEN [p EXCEPT !.dest_station = input]
            ELSE [p EXCEPT !.dest_station = 12]

\* parse_error joining the banner texts with a blank instead of a newline
parse_error_blank(page) ==
    LET withText == SelectSeq(page.banners, LAMBDA e : e # <<>>)
        errors == [i \in 1..Len(withText) |-> Trim(withText[i][1])]
    IN IF errors = <<>> THEN None ELSE Some(Join(errors, <<" ">>))

\* parse_error: a page's span.feedbackPanelERROR elements, in document order,
\* are page.banners; an element is the sequence of its text nodes
parse_error(page) ==
    LET withText == SelectSeq(page.banners, LAMBDA e : e # <<>>)
        errors == [i \in 1..Len(withText) |-> Trim(withText[i][1])]
    IN IF errors = <<>> THEN None ELSE Some(Join(errors, <<"\n">>))

(***************************************************************************)
(* The inputs drawn                                                        *)
(***************************************************************************)
\* the window [start_date, end_date] scraped from #toTimeInputField
Windows ==
    {[start_date |-> <<"2", "0", "2", "4", "/", "0", "6", "/", "0", "1">>, end_date |-> <<"2", "0", "2", "4", "/", "0", "6", "/", "1", "0">>],
     [start_date |-> <<"2", "0", "2", "4", "/", "1", "2", "/", "2", "0">>, end_date |-> <<"2", "0", "2", "5", "/", "0", "1", "/", "1", "6">>],
     [start_date |-> <<"2", "0", "2", "4", "/", "0", "6", "/", "2", "8">>, end_date |-> <<"2", "0", "2", "4", "/", "0", "7", "/", "2", "5">>]}

YearParts ==
    {<<"2", "0", "2", "4">>,
     <<"2", "0", "2", "5">>,
     <<"2", "0", "2", "3">>,
     <<"2", "0", "2", "4", "5">>,
     <<"9", "9", "9">>,
     <<"+", "2", "0", "2", "4">>,
     <<"x">>,
     <<"7", "0", "0", "0", "0">>}

MonthParts ==
    {<<"6">>,
     <<"0", "6">>,
     <<"1", "2">>,
     <<"1">>,
     <<"0", "1">>,
     <<"7">>,
     <<"1", "3">>,
     <<"0">>,
     <<"x">>}

DayParts ==
    {<<"5">>,
     <<"0", "5">>,
     <<"1">>,
     <<"1", "0">>,
     <<"2", "0">>,
     <<"1", "6">>,
     <<"3", "1">>,
     <<"3", "2">>,
     <<"0">>,
     <<"2", "5", "6">>}

\* date strings: three parts, and strings that are not three parts
DateStrings ==
    {y \o <<"/">> \o m \o <<"/">> \o d : y \in YearParts, m \in MonthParts, d \in DayParts}
    \cup {<<"2", "0", "2", "4", "/", "0", "6">>,
     <<"2", "0", "2", "4", "/", "0", "6", "/", "0", "5", "/", "1">>,
     <<"2", "0", "2", "4", "0", "6", "0", "5">>,
     <<"/">>,
     <<"2", "0", "2", "4", "-", "0", "6", "-", "0", "5">>}

\* lines typed at the date prompt: blank, or a date with blanks around it
DateLines ==
    {<<>>, <<" ">>} \cup DateStrings \cup {<<" ">> \o s \o <<" ">> : s \in DateStrings}

\* lines typed at a prompt for a number
NumberLines ==
    {<<>>,
     <<"0">>,
     <<"1">>,
     <<"2">>,
     <<"3">>,
     <<"1", "0">>,
     <<"1", "1">>,
     <<"3", "8">>,
     <<"3", "9">>,
     <<"2", "5", "5">>,
     <<"2", "5", "6">>,
     <<" ", "5", " ">>,
     <<"+", "7">>,
     <<"-", "1">>,
     <<"x">>}

\* the text nodes of a span.feedbackPanelERROR element: none, one, one with
\* blanks around it, two (a child element follows the text), a blank one
BannerElements ==
    {<<>>, <<<<"A">>>>, <<<<"B">>>>, <<<<" ", "A", " ">>>>, <<<<"A">>, <<"x">>>>,
     <<<<" ">>>>}

\* the sequences over S of length at most n
RECURSIVE SeqsUpTo(_, _)
SeqsUpTo(S, n) ==
    IF n = 0 THEN {<<>>}
    ELSE SeqsUpTo(S, n - 1)
         \cup {Append(q, x) : q \in {r \in SeqsUpTo(S, n - 1) : Len(r) = n - 1}, x \in S}

\* pages with up to MaxBanners error banners
BannerPages == {[banners |-> b] : b \in SeqsUpTo(BannerElements, MaxBanners)}

(***************************************************************************)
(* State                                                                   *)
(***************************************************************************)
VARIABLES
    pc,             \* where the program is
    call,           \* the operation that ran last, with its inputs
    ret,            \* what that operation returned, or that it panicked
    payload,        \* booking_flow: the BookingPayload
    doc,            \* booking_flow: what was scraped from the search page
    log,            \* the requests sent so far, in order
    resp,           \* the page received last
    stages,         \* run: the results of the stages that returned
    out,            \* run: what was printed at the end
    train_payload,  \* confirm_train_flow: the ConfirmTrainPayload
    ticket,         \* confirm_ticket_flow: its locals
    overridden      \* whether the user has supplied any selection so far

runVars == <<doc, log, resp, stages, out, train_payload, ticket, overridden>>

vars == <<pc, call, ret, payload, doc, log, resp, stages, out, train_payload,
          ticket, overridden>>

\* the state before run is called
NoRun ==
    /\ doc = None
    /\ log = <<>>
    /\ resp = None
    /\ stages = <<>>
    /\ out = None
    /\ train_payload = None
    /\ ticket = None
    /\ overridden = FALSE

(***************************************************************************)
(* The methods of BookingPayload and parse_error, each called once on a    *)
(* freshly constructed payload.                                            *)
(***************************************************************************)
InitUnit ==
    /\ pc = "unit"
    /\ call = [op |-> "new"]
    /\ ret = Returned(None)
    /\ payload = DefaultBookingPayload
    /\ NoRun

CallSelectDate ==
    /\ pc = "unit"
    /\ \E w \in Windows, date \in {None} \cup {Some(s) : s \in DateStrings},
          line \in DateLines :
          /\ date.some => line = <<>>
          /\ call' = [op |-> "select_date", start_date |-> w.start_date,
                      end_date |-> w.end_date, date |-> date, line |-> line]
          /\ payload' = select_date(payload, w.start_date, w.end_date, date, line)
          /\ ret' = Returned(None)
    /\ pc' = "unit_done"
    /\ UNCHANGED runVars

CallSelectTime ==
    /\ pc = "unit"
    /\ \E time \in {None} \cup {Some(i) : i \in 0..(Len(TIME_TABLE) + 2)},
          line \in NumberLines :
          /\ time.some => line = <<>>
          /\ call' = [op |-> "select_time", time |-> time, line |-> line]
          /\ out' = IF time.some THEN None
                    ELSE Some([listing |-> select_time_listing])
          /\ ret' = IF select_time(payload, time, line).panicked
                    THEN Panicked ELSE Returned(None)
          /\ payload' = IF select_time(payload, time, line).panicked
                        THEN payload ELSE select_time(payload, time, line).val
    /\ pc' = "unit_done"
    /\ UNCHANGED <<doc, log, resp, stages, train_payload, ticket, overridden>>

CallSelectTicketNum ==
    /\ pc = "unit"
    /\ \E tt \in TicketTypes,
          val \in {None} \cup {Some(c) : c \in 0..MaxTicketArg \cup {2^8 - 1}},
          line \in NumberLines :
          /\ val.some => line = <<>>
          /\ call' = [op |-> "select_ticket_num", ticket_type |-> tt,
                      val |-> val, line |-> line]
          /\ payload' = select_ticket_num(payload, tt, val, line)
          /\ ret' = Returned(None)
    /\ pc' = "unit_done"
    /\ UNCHANGED runVars

CallSelectSeatPrefer ==
    /\ pc = "unit"
    /\ \E prefer \in {None} \cup {Some(i) : i \in 0..MaxPrefArg},
          line \in NumberLines :
          /\ prefer.some => line = <<>>
          /\ call' = [op |-> "select_seat_prefer", prefer |-> prefer, line |-> line]
          /\ payload' = select_seat_prefer(payload, prefer, line)
          /\ ret' = Returned(None)
    /\ pc' = "unit_done"
    /\ UNCHANGED runVars

CallSelectClassType ==
    /\ pc = "unit"
    /\ \E class_type \in {None} \cup {Some(i) : i \in 0..MaxPrefArg},
          line \in NumberLines :
          /\ class_type.some => line = <<>>
          /\ call' = [op |-> "select_class_type", class_type |-> class_type,
                      line |-> line]
          /\ payload' = select_class_type(payload, class_type, line)
          /\ ret' = Returned(None)
    /\ pc' = "unit_done"
    /\ UNCHANGED runVars

CallParseError ==
    /\ pc = "unit"
    /\ \E page \in BannerPages :
          /\ call' = [op |-> "parse_error", page |-> page]
          /\ ret' = Returned(parse_error(page))
    /\ pc' = "unit_done"
    /\ UNCHANGED <<payload, runVars>>

(***************************************************************************)
(* The inputs drawn in a run: the command line (cli.rs), the lines typed,   *)
(* and the pages the server answers with                                   *)
(***************************************************************************)
\* the largest number of trains listed on a page
MaxTrains == 2
\* the largest number of early-bird markers on a page
MaxEarlyBird == 3

RunStationArgs == {None, Some(13)}

RunStationLines == {<<>>, <<"3">>, <<"0">>}

RunDateArgs == {None, Some(<<"2", "0", "2", "4", "/", "6", "/", "5">>), Some(<<"2", "0", "2", "4", "5", "/", "1", "/", "1">>)}

RunDateLines == {<<>>, <<"2", "0", "2", "4", "/", "0", "6", "/", "2", "9">>}

RunTimeArgs == {None, Some(0), Some(1), Some(39)}

RunTimeLines == {<<>>, <<"3", "8">>}

RunAdultArgs == {None, Some(0), Some(2), Some(11)}

RunStudentArgs == {None, Some(0), Some(3)}

RunTicketLines == {<<>>, <<"0">>, <<"5">>}

RunSeatArgs == {None, Some(1)}

RunClassArgs == {None, Some(1)}

RunPrefLines == {<<>>, <<"2">>, <<"7">>}

RunCodeLines == {<<"A", "B">>}

RunTrainLines == {<<>>, <<"1">>, <<"2">>, <<"3">>, <<"0">>, <<"x">>}

RunIdArgs == {None, Some(<<"A", "1">>)}

RunIdLines == {<<>>, <<" ">>, <<"B", "2">>}

RunMembershipArgs == {None, Some(TRUE), Some(FALSE)}

RunMembershipLines == {<<>>, <<"y">>, <<"n">>, <<"x">>}

\* the error banners of a page in a run: none, one with a text, one without
RunBanners == {<<>>, <<<<<<"A">>>>>>, <<<<>>>>}

\* the input element of a label.result-item
TrainInput(code, value) ==
    [querycode |-> Some(code), querydeparture |-> Some(<<"0", "6", ":", "0", "0">>),
     queryarrival |-> Some(<<"0", "8", ":", "0", "0">>), queryestimatedtime |-> Some(<<"2", ":", "0", "0">>),
     value |-> value]

\* label.result-item elements: with both discounts, with none, with an input
\* that has no value attribute, with a discount span that has no text
TrainElements ==
    {[input |-> Some(TrainInput(<<"1", "0", "1">>, Some(<<"v", "A">>))),
      early_bird |-> Some(Some(<<"E">>)), student |-> Some(Some(<<"S">>))],
     [input |-> Some(TrainInput(<<"2", "0", "2">>, Some(<<"v", "B">>))),
      early_bird |-> None, student |-> None],
     [input |-> Some(TrainInput(<<"2", "0", "2">>, None)),
      early_bird |-> None, student |-> None],
     [input |-> Some(TrainInput(<<"1", "0", "1">>, Some(<<"v", "A">>))),
      early_bird |-> Some(None), student |-> None]}

\* the pages that answer the search form
ResultPages ==
    {[banners |-> b, trains |-> ts] :
        b \in RunBanners, ts \in SeqsUpTo(TrainElements, MaxTrains)}

\* .superEarlyBird elements: n of them with a text node, or one without, or
\* one with and one without
EarlyBirdMarkers ==
    {[i \in 1..n |-> <<<<"e">>>>] : n \in 0..MaxEarlyBird}
    \cup {<<<<>>>>, <<<<<<"e">>>>, <<>>>>}

\* the pages that answer the train form
ConfirmPages ==
    {[banners |-> b, memberSystemRadio1 |-> r1, memberSystemRadio3 |-> Some(<<"r", "3">>),
      superEarlyBird |-> m, passengerDataTypeName |-> ty] :
        b \in {<<>>, <<<<<<"A">>>>>>}, r1 \in {None, Some(<<"r", "1">>)},
        m \in EarlyBirdMarkers, ty \in {None, Some(<<"t">>)}}

\* the pages that answer the ticket form; result is what show_result reads,
\* None when an element it unwraps is missing
FinalPages ==
    {[banners |-> b, result |-> r] :
        b \in {<<>>, <<<<<<"A">>>>>>}, r \in {None, Some(<<"P", "N", "R">>)}}

(***************************************************************************)
(* run: the three stages, one after another                                *)
(***************************************************************************)
BASE_URL == <<"https://irs.thsrc.com.tw">>

BOOKING_PAGE_URL == <<"https://irs.thsrc.com.tw/IMINT/?locale=tw">>

\* the URL with the place of the session id, "{}", as a segment of its own
SUBMIT_FORM_URL ==
    <<"https://irs.thsrc.com.tw/IMINT/;jsessionid=", "{}",
      "?wicket:interface=:0:BookingS1Form::IFormSubmitListener">>

CONFIRM_TRAIN_URL ==
    <<"https://irs.thsrc.com.tw/IMINT/?wicket:interface=:1:BookingS2Form::IFormSubmitListener">>

CONFIRM_TICKET_URL ==
    <<"https://irs.thsrc.com.tw/IMINT/?wicket:interface=:2:BookingS3Form::IFormSubmitListener">>

\* the URL left as it is
Replace_nothing(url, with) == url

\* str::replace("{}", with) on a URL held as segments
Replace(url, with) ==
    [i \in 1..Len(url) |-> IF url[i] = "{}" THEN with ELSE url[i]]

\* the search page as the server may send it: the JSESSIONID cookie, the src
\* of #BookingS1Form_homeCaptcha_passCode, the value of the checked
\* bookingMethod radio, the value of the selected trip type, and the date
\* and limit attributes of #toTimeInputField; None for what is missing
SearchPage(jid, src, by, trip, window) ==
    [jsessionid |-> jid, img_src |-> src, search_by |-> by,
     types_of_trip |-> trip, window |-> window]

SearchPages ==
    {SearchPage(Some(IF w.end_date[4] = "5" THEN "JB" ELSE "JA"),
                Some("/IMINT/captcha?a"), Some(<<"0">>), Some(0), Some(w)) :
        w \in Windows}
    \cup {SearchPage(None, Some("/IMINT/captcha?a"), Some(<<"0">>), Some(0), None),
          SearchPage(Some("JB"), None, Some(<<"0">>), Some(0), None),
          SearchPage(Some("JB"), Some("/IMINT/captcha?b"), None, Some(0), None),
          SearchPage(Some("JB"), Some("/IMINT/captcha?b"), Some(<<"0">>), None, None),
          SearchPage(Some("JB"), Some("/IMINT/captcha?b"), Some(<<"1">>), Some(1), None)}

\* a request as the log keeps it
Request(method, url) == [method |-> method, url |-> url]

\* a transport error answered by sending the request again
AfterSendError_retry(request_pc) == request_pc

\* what becomes of the run when client.send().unwrap() gets a transport
\* error: it panics, at whichever request
AfterSendError(request_pc) == "panicked"

\* a stage's result: Err with the banner texts, or Ok with the page
StageResult(page) ==
    IF parse_error(page).some THEN [ok |-> FALSE, err |-> parse_error(page).val]
    ELSE [ok |-> TRUE, page |-> page]

\* run going on to the next stage whatever the stage returned
run_match_continue(result, next_pc) == [pc |-> next_pc, out |-> None]

\* run's match on a stage's result: on Err it prints the error and returns,
\* on Ok it goes on to what follows
run_match(result, next_pc) ==
    IF result.ok THEN [pc |-> next_pc, out |-> None]
    ELSE [pc |-> "halted", out |-> Some([error |-> result.err])]

Init ==
    /\ pc = "run"
    /\ call = [op |-> "run"]
    /\ ret = Returned(None)
    /\ payload = None
    /\ NoRun

(***************************************************************************)
(* booking_flow::run_flow                                                  *)
(***************************************************************************)
\* client.get(BOOKING_PAGE_URL).send()
SendBookingPage ==
    /\ pc = "run"
    /\ log' = Append(log, Request("GET", BOOKING_PAGE_URL))
    /\ pc' = "await_booking_page"
    /\ call' = [op |-> "get_booking_page"]
    /\ UNCHANGED <<ret, payload, doc, resp, stages, out, train_payload, ticket,
                   overridden>>

\* the response: the session id and the CAPTCHA image URL are parsed from it
RecvBookingPage ==
    /\ pc = "await_booking_page"
    /\ \/ /\ pc' = AfterSendError("run")
          /\ UNCHANGED <<doc, resp>>
       \/ \E page \in SearchPages :
             /\ resp' = page
             /\ IF ~page.jsessionid.some \/ ~page.img_src.some
                THEN /\ pc' = "panicked"
                     /\ UNCHANGED doc
                ELSE /\ pc' = "get_security_code"
                     /\ doc' = Some([jid |-> page.jsessionid.val,
                                     sec_code_img_url |-> BASE_URL \o <<page.img_src.val>>])
    /\ UNCHANGED <<call, ret, payload, log, stages, out, train_payload, ticket,
                   overridden>>

\* client.get(&sec_code_img_url).send()
SendSecurityCodeImage ==
    /\ pc = "get_security_code"
    /\ log' = Append(log, Request("GET", doc.val.sec_code_img_url))
    /\ pc' = "await_security_code"
    /\ call' = [op |-> "get_security_code"]
    /\ UNCHANGED <<ret, payload, doc, resp, stages, out, train_payload, ticket,
                   overridden>>

\* the image response; then the payload is constructed and the search mode
\* and the trip type are copied from the page
RecvSecurityCodeImage ==
    /\ pc = "await_security_code"
    /\ \/ /\ pc' = AfterSendError("get_security_code")
          /\ UNCHANGED payload
       \/ IF ~resp.search_by.some \/ ~resp.types_of_trip.some
          THEN /\ pc' = "panicked"
               /\ UNCHANGED payload
          ELSE /\ pc' = "select_start_station"
               /\ payload' = [DefaultBookingPayload EXCEPT
                                 !.search_by = resp.search_by.val,
                                 !.types_of_trip = resp.types_of_trip.val]
    /\ UNCHANGED <<call, ret, doc, log, resp, stages, out, train_payload, ticket,
                   overridden>>

Supplied(arg, line) == arg.some \/ Trim(line) # <<>>

SelectStartStation ==
    /\ pc = "select_start_station"
    /\ \E from \in RunStationArgs, line \in RunStationLines :
          /\ from.some => line = <<>>
          /\ call' = [op |-> "select_start_station", from |-> from, line |-> line]
          /\ payload' = select_start_station(payload, from, line)
          /\ overridden' = (overridden \/ Supplied(from, line))
    /\ pc' = "select_dest_station"
    /\ UNCHANGED <<ret, doc, log, resp, stages, out, train_payload, ticket>>

SelectDestStation ==
    /\ pc = "select_dest_station"
    /\ \E to \in RunStationArgs, line \in RunStationLines :
          /\ to.some => line = <<>>
          /\ call' = [op |-> "select_dest_station", to |-> to, line |-> line]
          /\ payload' = select_dest_station(payload, to, line)
          /\ overridden' = (overridden \/ Supplied(to, line))
    /\ pc' = "select_date"
    /\ UNCHANGED <<ret, doc, log, resp, stages, out, train_payload, ticket>>

\* parse_avail_start_end_date, the default of the outbound date when no date
\* is given, and select_date
SelectDate ==
    /\ pc = "select_date"
    /\ IF ~resp.window.some
       THEN /\ pc' = "panicked"
            /\ UNCHANGED <<call, payload, overridden>>
       ELSE /\ \E date \in RunDateArgs, line \in RunDateLines :
                  LET start_date == resp.window.val.start_date
                      end_date == resp.window.val.end_date
                      p == IF ~date.some
                           THEN [payload EXCEPT !.outbound_date = end_date]
                           ELSE payload
                  IN /\ date.some => line = <<>>
                     /\ call' = [op |-> "select_date", start_date |-> start_date,
                                 end_date |-> end_date, date |-> date, line |-> line]
                     /\ payload' = select_date(p, start_date, end_date, date, line)
                     /\ overridden' = (overridden \/ Supplied(date, line))
            /\ pc' = "select_time"
    /\ UNCHANGED <<ret, doc, log, resp, stages, out, train_payload, ticket>>

SelectTime ==
    /\ pc = "select_time"
    /\ \E time \in RunTimeArgs, line \in RunTimeLines :
          /\ time.some => line = <<>>
          /\ call' = [op |-> "select_time", time |-> time, line |-> line]
          /\ overridden' = (overridden \/ Supplied(time, line))
          /\ IF select_time(payload, time, line).panicked
             THEN /\ pc' = "panicked"
                  /\ UNCHANGED payload
             ELSE /\ pc' = "select_ticket_num"
                  /\ payload' = select_time(payload, time, line).val
    /\ UNCHANGED <<ret, doc, log, resp, stages, out, train_payload, ticket>>

\* the three calls of select_ticket_num in run_flow: the adult count is
\* asked for only when neither count is given
select_ticket_nums(p, adult_cnt, student_cnt, line) ==
    LET p1 == IF ~adult_cnt.some /\ ~student_cnt.some
              THEN select_ticket_num(p, "Adult", None, line) ELSE p
        p2 == IF adult_cnt.some
              THEN select_ticket_num(p1, "Adult", adult_cnt, <<>>) ELSE p1
    IN IF student_cnt.some
       THEN select_ticket_num(p2, "College", student_cnt, <<>>) ELSE p2

SelectTicketNum ==
    /\ pc = "select_ticket_num"
    /\ \E adult_cnt \in RunAdultArgs, student_cnt \in RunStudentArgs,
          line \in RunTicketLines :
          /\ (adult_cnt.some \/ student_cnt.some) => line = <<>>
          /\ call' = [op |-> "select_ticket_num", adult_cnt |-> adult_cnt,
                      student_cnt |-> student_cnt, line |-> line]
          /\ payload' = select_ticket_nums(payload, adult_cnt, student_cnt, line)
          /\ overridden' = (overridden \/ Supplied(adult_cnt, line) \/ student_cnt.some)
    /\ pc' = "select_seat_prefer"
    /\ UNCHANGED <<ret, doc, log, resp, stages, out, train_payload, ticket>>

SelectSeatPrefer ==
    /\ pc = "select_seat_prefer"
    /\ \E prefer \in RunSeatArgs, line \in RunPrefLines :
          /\ prefer.some => line = <<>>
          /\ call' = [op |-> "select_seat_prefer", prefer |-> prefer, line |-> line]
          /\ payload' = select_seat_prefer(payload, prefer, line)
          /\ overridden' = (overridden \/ Supplied(prefer, line))
    /\ pc' = "select_class_type"
    /\ UNCHANGED <<ret, doc, log, resp, stages, out, train_payload, ticket>>

SelectClassType ==
    /\ pc = "select_class_type"
    /\ \E class_type \in RunClassArgs, line \in RunPrefLines :
          /\ class_type.some => line = <<>>
          /\ call' = [op |-> "select_class_type", class_type |-> class_type,
                      line |-> line]
          /\ payload' = select_class_type(payload, class_type, line)
          /\ overridden' = (overridden \/ Supplied(class_type, line))
    /\ pc' = "input_security_code"
    /\ UNCHANGED <<ret, doc, log, resp, stages, out, train_payload, ticket>>

\* BookingPayload::input_security_code
input_security_code(p, line) == [p EXCEPT !.security_code = Trim(line)]

\* img_resp.bytes().unwrap(), show_image and the line read: reading the
\* image, writing tmp_code.jpg or starting the viewer may fail, which panics
InputSecurityCode ==
    /\ pc = "input_security_code"
    /\ \/ /\ pc' = "panicked"
          /\ UNCHANGED <<call, payload>>
       \/ \E line \in RunCodeLines :
             /\ call' = [op |-> "input_security_code", line |-> line]
             /\ payload' = input_security_code(payload, line)
             /\ pc' = "submit_booking"
    /\ UNCHANGED <<ret, doc, log, resp, stages, out, train_payload, ticket,
                   overridden>>

\* client.post(SUBMIT_FORM_URL.replace("{}", &jid)).body(payload).send()
SendBooking ==
    /\ pc = "submit_booking"
    /\ log' = Append(log, Request("POST", Replace(SUBMIT_FORM_URL, doc.val.jid)))
    /\ pc' = "await_booking"
    /\ UNCHANGED <<call, ret, payload, doc, resp, stages, out, train_payload,
                   ticket, overridden>>

\* the response to the search form; run_flow returns, and run matches on
\* what it returned
RecvBooking ==
    /\ pc = "await_booking"
    /\ \/ /\ pc' = AfterSendError("submit_booking")
          /\ UNCHANGED <<resp, stages, out, payload, doc, overridden, call>>
       \/ \E page \in ResultPages :
             /\ resp' = page
             /\ stages' = Append(stages, IF StageResult(page).ok THEN "Ok" ELSE "Err")
             /\ pc' = run_match(StageResult(page), "select_train").pc
             /\ out' = run_match(StageResult(page), "select_train").out
             /\ payload' = None
             /\ doc' = None
             /\ overridden' = FALSE
             /\ call' = [op |-> "booking_flow"]
    /\ UNCHANGED <<ret, log, train_payload, ticket>>

(***************************************************************************)
(* confirm_train_flow::run_flow                                            *)
(***************************************************************************)
\* parse_discount with the student text put first
parse_discount_student_first(item) ==
    LET tags == (IF item.student.some THEN <<item.student.val>> ELSE <<>>)
                \o (IF item.early_bird.some THEN <<item.early_bird.val>> ELSE <<>>)
    IN IF \E i \in 1..Len(tags) : ~tags[i].some THEN Panicked
       ELSE LET discounts == [i \in 1..Len(tags) |-> tags[i].val]
            IN IF discounts # <<>>
               THEN Returned(<<"(">> \o Join(discounts, <<",", " ">>) \o <<")">>)
               ELSE Returned(<<>>)

\* parse_discount: the texts of the early-bird and the student span of a
\* listing element, each None when absent; a span without text panics
parse_discount(item) ==
    LET tags == (IF item.early_bird.some THEN <<item.early_bird.val>> ELSE <<>>)
                \o (IF item.student.some THEN <<item.student.val>> ELSE <<>>)
    IN IF \E i \in 1..Len(tags) : ~tags[i].some THEN Panicked
       ELSE LET discounts == [i \in 1..Len(tags) |-> tags[i].val]
            IN IF discounts # <<>>
               THEN Returned(<<"(">> \o Join(discounts, <<",", " ">>) \o <<")">>)
               ELSE Returned(<<>>)

\* the closure of parse_trains on one label.result-item: the attributes of
\* its input element, each unwrapped
parse_train(element) ==
    IF \/ ~element.input.some
       \/ ~element.input.val.querycode.some
       \/ ~ParseUsize(element.input.val.querycode.val).some
       \/ ~element.input.val.querydeparture.some
       \/ ~element.input.val.queryarrival.some
       \/ ~element.input.val.queryestimatedtime.some
       \/ ~element.input.val.value.some
       \/ parse_discount(element).panicked
    THEN Panicked
    ELSE Returned([id |-> ParseUsize(element.input.val.querycode.val).val,
                   depart |-> element.input.val.querydeparture.val,
                   arrive |-> element.input.val.queryarrival.val,
                   travel_time |-> element.input.val.queryestimatedtime.val,
                   discount_info |-> parse_discount(element).val,
                   form_value |-> element.input.val.value.val])

\* parse_trains: every label.result-item of the page, in document order
parse_trains(document) ==
    IF \E i \in 1..Len(document.trains) : parse_train(document.trains[i]).panicked
    THEN Panicked
    ELSE Returned([i \in 1..Len(document.trains) |->
                      parse_train(document.trains[i]).val])

\* impl Default for ConfirmTrainPayload
DefaultConfirmTrainPayload == [selected_train |-> <<>>, form_mark |-> <<>>]

\* select_available_trains taking the train at the 0-based position
\* `selection` instead of `selection - 1`
select_available_trains_off_by_one(p, trains, line) ==
    LET selection == get_input_usize(line, 1)
    IN IF selection + 1 > Len(trains) THEN Panicked
       ELSE Returned([p EXCEPT !.selected_train = trains[selection + 1].form_value])

\* select_available_trains leaving the payload as it is when the selection
\* is no train of the list
select_available_trains_lenient(p, trains, line) ==
    LET selection == get_input_usize(line, 1)
    IN IF selection - 1 < 0 \/ selection - 1 >= Len(trains) THEN Returned(p)
       ELSE Returned([p EXCEPT !.selected_train = trains[(selection - 1) + 1].form_value])

\* ConfirmTrainPayload::select_available_trains: trains[selection - 1]
\* panics when selection is 0 (usize underflow, or the index usize::MAX)
\* and when selection is above the number of trains
select_available_trains(p, trains, line) ==
    LET selection == get_input_usize(line, 1)
    IN IF selection - 1 < 0 \/ selection - 1 >= Len(trains) THEN Panicked
       ELSE Returned([p EXCEPT !.selected_train = trains[(selection - 1) + 1].form_value])

\* parse_alert_body and parse_trains, then the train is selected
SelectAvailableTrains ==
    /\ pc = "select_train"
    /\ \E line \in RunTrainLines :
          /\ call' = [op |-> "select_available_trains", line |-> line]
          /\ IF parse_trains(resp).panicked
             THEN /\ pc' = "panicked"
                  /\ UNCHANGED train_payload
             ELSE LET r == select_available_trains(DefaultConfirmTrainPayload,
                                                   parse_trains(resp).val, line)
                  IN IF r.panicked
                     THEN /\ pc' = "panicked"
                          /\ UNCHANGED train_payload
                     ELSE /\ pc' = "submit_train"
                          /\ train_payload' = Some(r.val)
    /\ UNCHANGED <<ret, payload, doc, log, resp, stages, out, ticket, overridden>>

\* client.post(CONFIRM_TRAIN_URL).body(payload).send()
SendTrain ==
    /\ pc = "submit_train"
    /\ log' = Append(log, Request("POST", CONFIRM_TRAIN_URL))
    /\ pc' = "await_train"
    /\ UNCHANGED <<call, ret, payload, doc, resp, stages, out, train_payload,
                   ticket, overridden>>

RecvTrain ==
    /\ pc = "await_train"
    /\ \/ /\ pc' = AfterSendError("submit_train")
          /\ UNCHANGED <<resp, stages, out, train_payload, call>>
       \/ \E page \in ConfirmPages :
             /\ resp' = page
             /\ stages' = Append(stages, IF StageResult(page).ok THEN "Ok" ELSE "Err")
             /\ pc' = run_match(StageResult(page), "input_personal_id").pc
             /\ out' = run_match(StageResult(page), "input_personal_id").out
             /\ train_payload' = None
             /\ call' = [op |-> "confirm_train_flow"]
    /\ UNCHANGED <<ret, payload, doc, log, ticket, overridden>>

(***************************************************************************)
(* confirm_ticket_flow::run_flow                                           *)
(***************************************************************************)
\* impl Default for ConfirmTicketPayload
DefaultConfirmTicketPayload ==
    [personal_id |-> <<>>,
     phone_num |-> <<>>,
     member_radio |-> <<"0">>,
     form_mark |-> <<>>,
     id_input_radio |-> 0,
     diff_over |-> 1,
     email |-> <<>>,
     agree |-> <<"o", "n">>,
     go_back_m |-> <<>>,
     back_home |-> <<>>,
     tgo_error |-> 1]

\* ConfirmTicketPayload::input_personal_id
input_personal_id(p, personal_id, line) ==
    LET input == IF personal_id.some THEN personal_id.val ELSE Trim(line)
    IN [p EXCEPT !.personal_id = Trim(input)]

InputPersonalId ==
    /\ pc = "input_personal_id"
    /\ \E personal_id \in RunIdArgs, line \in RunIdLines :
          /\ personal_id.some => line = <<>>
          /\ call' = [op |-> "input_personal_id", personal_id |-> personal_id,
                      line |-> line]
          /\ ticket' = Some([payload |-> input_personal_id(DefaultConfirmTicketPayload,
                                                           personal_id, line),
                             add_payload |-> None,
                             early_bird |-> None])
    /\ pc' = "process_membership"
    /\ UNCHANGED <<ret, payload, doc, log, resp, stages, out, train_payload,
                   overridden>>

\* the pairs of the membership addendum
membership_payload(membership_id) ==
    <<<<"TicketMemberSystemInputPanel:TakerMemberSystemDataView:memberSystemRadioGroup:memberShipNumber",
        membership_id>>,
      <<"TicketMemberSystemInputPanel:TakerMemberSystemDataView:memberSystemRadioGroup:memberSystemShipCheckBox",
        <<"o", "n">>>>>>

\* process_membership returning the addendum whatever was chosen
process_membership_always(page, membership_id, to_use_membership, line) ==
    LET use_membership ==
            IF to_use_membership.some THEN to_use_membership.val
            ELSE get_input_String(line, <<"n">>) = <<"y">>
        elem == IF use_membership THEN page.memberSystemRadio1
                ELSE page.memberSystemRadio3
    IN IF ~elem.some THEN Panicked
       ELSE Returned(<<elem.val, Some(membership_payload(membership_id))>>)

\* process_membership: the value of #memberSystemRadio1 or #memberSystemRadio3
\* and, with membership, the addendum; a missing element or value panics
process_membership(page, membership_id, to_use_membership, line) ==
    LET use_membership ==
            IF to_use_membership.some THEN to_use_membership.val
            ELSE get_input_String(line, <<"n">>) = <<"y">>
        elem == IF use_membership THEN page.memberSystemRadio1
                ELSE page.memberSystemRadio3
    IN IF ~elem.some THEN Panicked
       ELSE IF use_membership
            THEN Returned(<<elem.val, Some(membership_payload(membership_id))>>)
            ELSE Returned(<<elem.val, None>>)

ProcessMembership ==
    /\ pc = "process_membership"
    /\ \E use_membership \in RunMembershipArgs, line \in RunMembershipLines :
          /\ use_membership.some => line = <<>>
          /\ call' = [op |-> "process_membership", use_membership |-> use_membership,
                      line |-> line]
          /\ LET r == process_membership(resp, ticket.val.payload.personal_id,
                                         use_membership, line)
             IN IF r.panicked
                THEN /\ pc' = "panicked"
                     /\ UNCHANGED ticket
                ELSE /\ pc' = "process_early_bird"
                     /\ ticket' = Some([ticket.val EXCEPT
                                           !.payload.member_radio = r.val[1],
                                           !.add_payload = r.val[2]])
    /\ UNCHANGED <<ret, payload, doc, log, resp, stages, out, train_payload,
                   overridden>>

\* every .superEarlyBird element of the page, with a text node or not
early_bird_elems_all(page) == page.superEarlyBird

\* the .superEarlyBird elements of the page that have a text node
early_bird_elems(page) == SelectSeq(page.superEarlyBird, LAMBDA e : e # <<>>)

\* the five fields of passenger row i
passenger_row(i, early_type, id) ==
    [f \in {<<i, "passengerDataLastName">>, <<i, "passengerDataFirstName">>,
            <<i, "passengerDataTypeName">>, <<i, "passengerDataIdNumber">>,
            <<i, "passengerDataInputChoice">>} |->
        CASE f[2] = "passengerDataLastName" -> <<>>
          [] f[2] = "passengerDataFirstName" -> <<>>
          [] f[2] = "passengerDataTypeName" -> early_type
          [] f[2] = "passengerDataIdNumber" -> id
          [] f[2] = "passengerDataInputChoice" -> <<"0">>]

\* HashMap::insert of the entries of m2 into m1
Inserted(m1, m2) ==
    [k \in DOMAIN m1 \cup DOMAIN m2 |-> IF k \in DOMAIN m2 THEN m2[k] ELSE m1[k]]

\* process_early_bird up to its loop: no addendum without markers; else the
\* first passenger's id is asked for (default: the personal id) and the
\* passenger type is read from the page
ProcessEarlyBird ==
    /\ pc = "process_early_bird"
    /\ IF early_bird_elems(resp) = <<>>
       THEN /\ pc' = "submit_ticket"
            /\ call' = [op |-> "process_early_bird"]
            /\ UNCHANGED ticket
       ELSE \E line \in RunIdLines :
               /\ call' = [op |-> "process_early_bird", line |-> line]
               /\ IF ~resp.passengerDataTypeName.some
                  THEN /\ pc' = "panicked"
                       /\ UNCHANGED ticket
                  ELSE /\ ticket' = Some([ticket.val EXCEPT !.early_bird =
                              Some(passenger_row(0, resp.passengerDataTypeName.val,
                                       get_input_String(line,
                                           ticket.val.payload.personal_id)))])
                       /\ pc' = IF Len(early_bird_elems(resp)) > 1
                                THEN "input_passenger_id" ELSE "submit_ticket"
    /\ UNCHANGED <<ret, payload, doc, log, resp, stages, out, train_payload,
                   overridden>>

\* the number of passenger rows in the map so far
Rows(m) == Cardinality({k[1] : k \in DOMAIN m})

\* the loop taking an empty line as the id of passenger i + 1
InputPassengerId_blank ==
    /\ pc = "input_passenger_id"
    /\ \E line \in RunIdLines :
          LET i == Rows(ticket.val.early_bird.val)
              inp_id == get_input_String(line, <<>>)
          IN /\ call' = [op |-> "input_passenger_id", i |-> i, line |-> line]
             /\ ticket' = Some([ticket.val EXCEPT !.early_bird =
                            Some(Inserted(ticket.val.early_bird.val,
                                     passenger_row(i, resp.passengerDataTypeName.val,
                                                   Trim(inp_id))))])
             /\ pc' = IF i + 1 < Len(early_bird_elems(resp))
                      THEN "input_passenger_id" ELSE "submit_ticket"
    /\ UNCHANGED <<ret, payload, doc, log, resp, stages, out, train_payload,
                   overridden>>

\* one turn of the loop that asks for the id of passenger i + 1: an empty
\* line is refused and asked for again
InputPassengerId ==
    /\ pc = "input_passenger_id"
    /\ \E line \in RunIdLines :
          LET i == Rows(ticket.val.early_bird.val)
              inp_id == get_input_String(line, <<>>)
          IN /\ call' = [op |-> "input_passenger_id", i |-> i, line |-> line]
             /\ IF inp_id = <<>>
                THEN UNCHANGED <<pc, ticket>>
                ELSE /\ ticket' = Some([ticket.val EXCEPT !.early_bird =
                            Some(Inserted(ticket.val.early_bird.val,
                                     passenger_row(i, resp.passengerDataTypeName.val,
                                                   Trim(inp_id))))])
                     /\ pc' = IF i + 1 < Len(early_bird_elems(resp))
                              THEN "input_passenger_id" ELSE "submit_ticket"
    /\ UNCHANGED <<ret, payload, doc, log, resp, stages, out, train_payload,
                   overridden>>

\* serde_urlencoded::to_string of a value of the Rust type `of`, as one
\* piece of the body: its fields, whose order within the piece is the
\* serializer's (for the HashMap, the hasher's)
Encoded(of, fields) == [of |-> of, encoded |-> fields]

Ampersand == [sep |-> "&"]

\* the form body with the place of each addendum kept when it is absent
ticket_body_fixed_places(t) ==
    <<Encoded("ConfirmTicketPayload", t.payload), Ampersand>>
    \o (IF t.early_bird.some THEN <<Encoded("HashMap", t.early_bird.val)>> ELSE <<>>)
    \o <<Ampersand>>
    \o (IF t.add_payload.some THEN <<Encoded("Vec", t.add_payload.val)>> ELSE <<>>)

\* the form body: the payload, then the early-bird addendum, then the
\* membership addendum, each after an '&'
ticket_body(t) ==
    <<Encoded("ConfirmTicketPayload", t.payload)>>
    \o (IF t.early_bird.some
        THEN <<Ampersand, Encoded("HashMap", t.early_bird.val)>> ELSE <<>>)
    \o (IF t.add_payload.some
        THEN <<Ampersand, Encoded("Vec", t.add_payload.val)>> ELSE <<>>)

\* client.post(CONFIRM_TICKET_URL).body(payload).send()
SendTicket ==
    /\ pc = "submit_ticket"
    /\ log' = Append(log, [method |-> "POST", url |-> CONFIRM_TICKET_URL,
                           body |-> ticket_body(ticket.val)])
    /\ pc' = "await_ticket"
    /\ UNCHANGED <<call, ret, payload, doc, resp, stages, out, train_payload,
                   ticket, overridden>>

RecvTicket ==
    /\ pc = "await_ticket"
    /\ \/ /\ pc' = AfterSendError("submit_ticket")
          /\ UNCHANGED <<resp, stages, out, ticket, call>>
       \/ \E page \in FinalPages :
             /\ resp' = page
             /\ stages' = Append(stages, IF StageResult(page).ok THEN "Ok" ELSE "Err")
             /\ pc' = run_match(StageResult(page), "show_result").pc
             /\ out' = run_match(StageResult(page), "show_result").out
             /\ ticket' = None
             /\ call' = [op |-> "confirm_ticket_flow"]
    /\ UNCHANGED <<ret, payload, doc, log, train_payload, overridden>>

\* show_result: it unwraps every element it reads
ShowResult ==
    /\ pc = "show_result"
    /\ IF resp.result.some
       THEN /\ pc' = "done"
            /\ out' = Some([result |-> resp.result.val])
       ELSE /\ pc' = "panicked"
            /\ UNCHANGED out
    /\ call' = [op |-> "show_result"]
    /\ UNCHANGED <<ret, payload, doc, log, resp, stages, train_payload, ticket,
                   overridden>>

Next ==
    \/ SendBookingPage
    \/ RecvBookingPage
    \/ SendSecurityCodeImage
    \/ RecvSecurityCodeImage
    \/ SelectStartStation
    \/ SelectDestStation
    \/ SelectDate
    \/ SelectTime
    \/ SelectTicketNum
    \/ SelectSeatPrefer
    \/ SelectClassType
    \/ InputSecurityCode
    \/ SendBooking
    \/ RecvBooking
    \/ SelectAvailableTrains
    \/ SendTrain
    \/ RecvTrain
    \/ InputPersonalId
    \/ ProcessMembership
    \/ ProcessEarlyBird
    \/ InputPassengerId
    \/ SendTicket
    \/ RecvTicket
    \/ ShowResult

Spec == Init /\ [][Next]_vars

(***************************************************************************)
(* The functions of the later stages, each called once                     *)
(***************************************************************************)
\* what the first span of p.early-bird or of p.student may be: absent, there
\* without a text node, there with a text
DiscountSpans(texts) == {None, Some(None)} \cup {Some(Some(x)) : x \in texts}

\* label.result-item elements as parse_discount reads them
DiscountItems ==
    {[early_bird |-> e, student |-> st] :
        e \in DiscountSpans({<<"E", "8">>, <<"x">>}),
        st \in DiscountSpans({<<"S", "5">>, <<"x">>})}

CallParseDiscount ==
    /\ pc = "unit"
    /\ \E item \in DiscountItems :
          /\ call' = [op |-> "parse_discount", item |-> item]
          /\ ret' = parse_discount(item)
    /\ pc' = "unit_done"
    /\ UNCHANGED <<payload, runVars>>

\* main.rs: the program run with --list-time-table
CallShowTimeTable ==
    /\ pc = "unit"
    /\ call' = [op |-> "show_time_table"]
    /\ out' = Some([listing |-> show_time_table])
    /\ ret' = Returned(None)
    /\ pc' = "unit_done"
    /\ UNCHANGED <<payload, doc, log, resp, stages, train_payload, ticket, overridden>>

NextUnit ==
    \/ CallParseError
    \/ CallSelectDate
    \/ CallSelectTime
    \/ CallSelectTicketNum
    \/ CallSelectSeatPrefer
    \/ CallSelectClassType
    \/ CallParseDiscount
    \/ CallShowTimeTable

SpecUnit == InitUnit /\ [][NextUnit]_vars

(***************************************************************************)
(* Properties of the BookingPayload methods                                *)
(***************************************************************************)
AllDigits(s) == s # <<>> /\ \A i \in 1..Len(s) : IsDigit(s[i])

\* the date string the user supplied to select_date: the argument, or the
\* line typed at the prompt without the blanks around it
SuppliedDate ==
    IF call.date.some THEN call.date.val ELSE Trim(call.line)

\* a date string read as year, month, day: None when it is not three parts,
\* a part is not a number, or month or day is out of 1..12, 1..31
DateOf(s) ==
    LET parts == Split(s, "/")
    IN IF Len(parts) # 3 THEN None
       ELSE IF \E i \in 1..3 : ~ParseUsize(parts[i]).some THEN None
       ELSE LET y == ParseUsize(parts[1]).val
                m == ParseUsize(parts[2]).val
                d == ParseUsize(parts[3]).val
            IN IF m \in 1..12 /\ d \in 1..31 THEN Some(<<y, m, d>>) ELSE None

\* calendar order of <<year, month, day>>
DateLeq(a, b) ==
    \/ a[1] < b[1]
    \/ a[1] = b[1] /\ a[2] < b[2]
    \/ a[1] = b[1] /\ a[2] = b[2] /\ a[3] <= b[3]

InWindow(ymd, start_date, end_date) ==
    /\ DateLeq(DateOf(start_date).val, ymd)
    /\ DateLeq(ymd, DateOf(end_date).val)

\* C1: a supplied date that is malformed, or that is a date outside the
\* scraped window [start_date, end_date], leaves select_date returning with
\* the outbound date equal to end_date.
C1_InvalidDateResolvesToEndDate ==
    (pc = "unit_done" /\ call.op = "select_date") =>
        ((\/ ~DateOf(SuppliedDate).some
          \/ ~InWindow(DateOf(SuppliedDate).val, call.start_date, call.end_date))
         => /\ ~ret.panicked
            /\ payload.outbound_date = call.end_date)

\* YYYY/M/D: three parts of digits, a four-digit year, month and day of one
\* or two digits, month in 1..12 and day in 1..31
IsYMDShaped(s) ==
    LET parts == Split(s, "/")
    IN /\ Len(parts) = 3
       /\ \A i \in 1..3 : AllDigits(parts[i])
       /\ Len(parts[1]) = 4
       /\ Len(parts[2]) \in 1..2
       /\ Len(parts[3]) \in 1..2
       /\ DigitsVal(parts[2]) \in 1..12
       /\ DigitsVal(parts[3]) \in 1..31

Pad2(s) == IF Len(s) = 1 THEN <<"0">> \o s ELSE s

\* the zero-padded form YYYY/MM/DD of a YYYY/M/D-shaped string
ZeroPadded(s) ==
    LET parts == Split(s, "/")
    IN parts[1] \o <<"/">> \o Pad2(parts[2]) \o <<"/">> \o Pad2(parts[3])

\* C2: a YYYY/M/D-shaped date whose zero-padded form lies inside the window
\* resolves to that zero-padded form, and normalizing a normalized date
\* returns it unchanged.
C2_InWindowDateResolvesToPaddedForm ==
    (pc = "unit_done" /\ call.op = "select_date") =>
        /\ (/\ IsYMDShaped(SuppliedDate)
            /\ InWindow(DateOf(ZeroPadded(SuppliedDate)).val,
                        call.start_date, call.end_date))
           => payload.outbound_date = ZeroPadded(SuppliedDate)
        /\ normalize_date(SuppliedDate).some
           => normalize_date(normalize_date(SuppliedDate).val)
                  = normalize_date(SuppliedDate)

\* C2 witness: 2024/6/5, unpadded, resolved to 2024/06/05, which is not the
\* end of the window
C2_Witness ==
    /\ pc = "unit_done" /\ call.op = "select_date"
    /\ SuppliedDate = <<"2", "0", "2", "4", "/", "6", "/", "5">>
    /\ call.end_date = <<"2", "0", "2", "4", "/", "0", "6", "/", "1", "0">>
    /\ payload.outbound_date = <<"2", "0", "2", "4", "/", "0", "6", "/", "0", "5">>

\* the time slot selected: the argument, or the number typed (10 when the
\* line is blank or no number)
SelectedSlot ==
    IF call.time.some THEN call.time.val
    ELSE IF AllDigits(Trim(call.line)) THEN DigitsVal(Trim(call.line))
    ELSE IF Trim(call.line) # <<>> /\ Head(Trim(call.line)) = "+"
            /\ AllDigits(Tail(Trim(call.line)))
         THEN DigitsVal(Tail(Trim(call.line)))
    ELSE 10

\* C3: select_time returns for every selection i, with the time token the
\* i-th table entry when 1 <= i <= 38 and the 10th entry, 930A, otherwise.
C3_TimeSlotOutOfRangeResolvesToTenth ==
    (pc = "unit_done" /\ call.op = "select_time") =>
        /\ ~ret.panicked
        /\ payload.outbound_time =
               IF SelectedSlot \in 1..38 THEN TIME_TABLE[SelectedSlot]
               ELSE <<"9", "3", "0", "A">>

\* the passenger count given: the argument, or the number typed
SuppliedCount ==
    IF call.val.some THEN call.val.val
    ELSE IF AllDigits(Trim(call.line)) /\ DigitsVal(Trim(call.line)) < 2^8
         THEN DigitsVal(Trim(call.line))
    ELSE IF Trim(call.line) # <<>> /\ Head(Trim(call.line)) = "+"
            /\ AllDigits(Tail(Trim(call.line)))
         THEN DigitsVal(Tail(Trim(call.line)))
    ELSE 1

TicketLetter ==
    [Adult |-> "F", Child |-> "H", Disabled |-> "W", Elder |-> "E", College |-> "P"]

CountText ==
    <<<<"0">>, <<"1">>, <<"2">>, <<"3">>, <<"4">>, <<"5">>, <<"6">>, <<"7">>,
      <<"8">>, <<"9">>, <<"1", "0">>>>

TicketField(p, tt) ==
    CASE tt = "Adult" -> p.adult_ticket_num
      [] tt = "Child" -> p.child_ticket_num
      [] tt = "Disabled" -> p.disabled_ticket_num
      [] tt = "Elder" -> p.elder_ticket_num
      [] tt = "College" -> p.college_ticket_num

\* C4: for every ticket type T, select_ticket_num returns; a count above 10
\* is stored as "1<letter of T>" and a count c in 0..10 as "<c><letter of T>".
C4_TicketCountAboveTenResolvesToOne ==
    (pc = "unit_done" /\ call.op = "select_ticket_num") =>
        /\ ~ret.panicked
        /\ TicketField(payload, call.ticket_type) =
               (IF SuppliedCount > 10 THEN <<"1">>
                ELSE CountText[SuppliedCount + 1])
               \o <<TicketLetter[call.ticket_type]>>

\* C4 witness: the college count 12 stored as 1P
C4_Witness ==
    /\ pc = "unit_done" /\ call.op = "select_ticket_num"
    /\ call.ticket_type = "College"
    /\ call.val = Some(12)
    /\ payload.college_ticket_num = <<"1", "P">>

\* the number given to select_seat_prefer or select_class_type
SuppliedNumber(arg) ==
    IF arg.some THEN arg.val
    ELSE IF AllDigits(Trim(call.line)) THEN DigitsVal(Trim(call.line))
    ELSE IF Trim(call.line) # <<>> /\ Head(Trim(call.line)) = "+"
            /\ AllDigits(Tail(Trim(call.line)))
         THEN DigitsVal(Tail(Trim(call.line)))
    ELSE 0

\* C5: a seat preference outside {0,1,2} resolves to 0 and a class type
\* outside {0,1} resolves to 0; a value inside is stored unchanged.
C5_PreferenceOutOfRangeResolvesToZero ==
    /\ (pc = "unit_done" /\ call.op = "select_seat_prefer") =>
           payload.seat_prefer =
               IF SuppliedNumber(call.prefer) \in {0, 1, 2}
               THEN SuppliedNumber(call.prefer) ELSE 0
    /\ (pc = "unit_done" /\ call.op = "select_class_type") =>
           payload.class_type =
               IF SuppliedNumber(call.class_type) \in {0, 1}
               THEN SuppliedNumber(call.class_type) ELSE 0

\* C5 witness: the seat preference 3 resolved to 0
C5_Witness ==
    /\ pc = "unit_done" /\ call.op = "select_seat_prefer"
    /\ call.prefer = Some(3)
    /\ payload.seat_prefer = 0

(***************************************************************************)
(* Properties of parse_error                                               *)
(***************************************************************************)
\* the text of an element: its text nodes, one after another
ElementText(e) == Join(e, <<>>)

\* C7 as stated: parse_error returns None exactly when the page has no
\* banner element, and otherwise the texts of all banner elements, in
\* document order, joined by a newline.
C7_NoneIffNoBannerElement ==
    (pc = "unit_done" /\ call.op = "parse_error") =>
        /\ ret.val = None <=> call.page.banners = <<>>
        /\ call.page.banners # <<>> =>
               ret.val = Some(Join([i \in 1..Len(call.page.banners) |->
                                       ElementText(call.page.banners[i])],
                                   <<"\n">>))

\* the first text node, trimmed, of each element that has a text node
RECURSIVE FirstTexts(_)
FirstTexts(elems) ==
    IF elems = <<>> THEN <<>>
    ELSE (IF Head(elems) = <<>> THEN <<>> ELSE <<Trim(Head(elems)[1])>>)
         \o FirstTexts(Tail(elems))

RECURSIVE Lines(_)
Lines(texts) ==
    IF Len(texts) = 1 THEN texts[1]
    ELSE texts[1] \o <<"\n">> \o Lines(Tail(texts))

\* C7 as amended: parse_error returns None exactly when no banner element
\* has a text node, and otherwise the trimmed first text node of each banner
\* element that has one, in document order, joined by a newline; two banners
\* "A" and "B" give "A\nB".
C7_NoneIffNoBannerText ==
    (pc = "unit_done" /\ call.op = "parse_error") =>
        /\ ret.val = None <=> \A i \in 1..Len(call.page.banners) :
                                 call.page.banners[i] = <<>>
        /\ FirstTexts(call.page.banners) # <<>> =>
               ret.val = Some(Lines(FirstTexts(call.page.banners)))
        /\ call.page.banners = <<<<<<"A">>>>, <<<<"B">>>>>> =>
               ret.val = Some(<<"A", "\n", "B">>)

\* C7 witness: the banners "A" and "B" returned as "A\nB"
C7_Witness ==
    /\ pc = "unit_done" /\ call.op = "parse_error"
    /\ call.page.banners = <<<<<<"A">>>>, <<<<"B">>>>>>
    /\ ret.val = Some(<<"A", "\n", "B">>)

(***************************************************************************)
(* Properties of a run                                                     *)
(***************************************************************************)
\* where booking_flow holds its payload
BookingPcs ==
    {"select_start_station", "select_dest_station", "select_date", "select_time",
     "select_ticket_num", "select_seat_prefer", "select_class_type",
     "input_security_code", "submit_booking", "await_booking"}

\* C6: as long as no selection is supplied (no argument given, every prompt
\* answered with a blank line), the booking payload carries origin 2,
\* destination 12, the counts 1F, 0H, 0W, 0E, 0P, seat preference 0, class
\* type 0 and a blank form marker, from its construction to its submission.
C6_DefaultsWithoutOverrides ==
    (pc \in BookingPcs /\ ~overridden) =>
        /\ payload.start_station = 2
        /\ payload.dest_station = 12
        /\ payload.adult_ticket_num = <<"1", "F">>
        /\ payload.child_ticket_num = <<"0", "H">>
        /\ payload.disabled_ticket_num = <<"0", "W">>
        /\ payload.elder_ticket_num = <<"0", "E">>
        /\ payload.college_ticket_num = <<"0", "P">>
        /\ payload.seat_prefer = 0
        /\ payload.class_type = 0
        /\ payload.form_mark = <<>>

\* C6 witness: the search form submitted with nothing supplied
C6_Witness ==
    /\ pc = "await_booking" /\ ~overridden
    /\ payload.start_station = 2 /\ payload.dest_station = 12
    /\ payload.adult_ticket_num = <<"1", "F">>

\* the POST requests sent so far
Posts == SelectSeq(log, LAMBDA r : r.method = "POST")

\* a page shows an error when a banner element of it has a text node
ShowsError(page) == FirstTexts(page.banners) # <<>>

\* C8: a stage that returns an error is the last stage to run: the error
\* printed is the text of its page's banners, the run has halted with as many
\* forms submitted as stages were run, and from then on nothing is sent and
\* nothing more is printed; the result is shown only after three stages
\* returned a page.
C8_FirstErrorHalts ==
    /\ [](/\ \A i \in 1..Len(stages) :
                stages[i] = "Err" =>
                    /\ i = Len(stages)
                    /\ pc = "halted"
                    /\ ShowsError(resp)
                    /\ out = Some([error |-> Lines(FirstTexts(resp.banners))])
                    /\ Len(Posts) = i
          /\ (pc \in {"show_result", "done"} \/ (out.some /\ "result" \in DOMAIN out.val))
                => stages = <<"Ok", "Ok", "Ok">>
          /\ (stages # <<>> /\ stages[Len(stages)] = "Ok"
                /\ pc \in {"select_train", "input_personal_id", "show_result"})
                => ~ShowsError(resp))
    /\ [][(\E i \in 1..Len(stages) : stages[i] = "Err") => UNCHANGED vars]_vars

\* C8 witness: the second stage returned the error "A": it is printed, two
\* forms were submitted and the run has halted
C8_Witness ==
    /\ pc = "halted"
    /\ stages = <<"Ok", "Err">>
    /\ out = Some([error |-> <<"A">>])
    /\ Len(Posts) = 2

\* which of the five requests a logged request is
Endpoint(r) ==
    IF r.method = "GET" /\ r.url = BOOKING_PAGE_URL THEN "search-page"
    ELSE IF r.method = "GET" /\ Len(r.url) = 2 /\ r.url[1] = BASE_URL[1]
         THEN "captcha-image"
    ELSE IF r.method = "POST" /\ Len(r.url) = 3 /\ r.url[1] = SUBMIT_FORM_URL[1]
            /\ r.url[3] = SUBMIT_FORM_URL[3]
         THEN "search-submit"
    ELSE IF r.method = "POST" /\ r.url = CONFIRM_TRAIN_URL THEN "train-confirm"
    ELSE IF r.method = "POST" /\ r.url = CONFIRM_TICKET_URL THEN "ticket-confirm"
    ELSE "other"

RequestOrder ==
    <<"search-page", "captcha-image", "search-submit", "train-confirm",
      "ticket-confirm">>

\* where the run waits for the response to a request
AwaitPcs ==
    {"await_booking_page", "await_security_code", "await_booking", "await_train",
     "await_ticket"}

\* C9: the requests sent are a prefix of search-page GET, CAPTCHA-image GET,
\* search-submit POST, train-confirm POST, ticket-confirm POST, so each is
\* sent at most once; a request is sent only when no request is waiting for
\* its response, and the run then waits for it.
C9_RequestsInFixedOrderOnce ==
    /\ [](/\ Len(log) <= Len(RequestOrder)
          /\ \A i \in 1..Len(log) : i <= Len(RequestOrder)
                                      => Endpoint(log[i]) = RequestOrder[i])
    /\ [][log' # log => /\ pc \notin AwaitPcs
                        /\ pc' \in AwaitPcs
                        /\ \E r \in {log'[Len(log')]} : log' = Append(log, r)]_vars

\* C9 witness: all five requests sent, the run waiting for the last response
C9_Witness ==
    /\ pc = "await_ticket"
    /\ [i \in 1..Len(log) |-> Endpoint(log[i])] = RequestOrder

\* the 1-based index chosen at the train prompt: the number typed, 1 when
\* the line is blank or no number
ChosenTrain ==
    IF AllDigits(Trim(call.line)) THEN DigitsVal(Trim(call.line)) ELSE 1

\* C10: whenever the train form is about to be or has been submitted, its
\* selected-train field is the value attribute of the listing element at the
\* chosen 1-based index of the page that answered the search form; it is not
\* empty and it is none of that element's other attributes.
C10_SelectedTrainIsScrapedValue ==
    pc \in {"submit_train", "await_train"} =>
        /\ ChosenTrain \in 1..Len(resp.trains)
        /\ LET input == resp.trains[ChosenTrain].input.val
           IN /\ train_payload.val.selected_train = input.value.val
              /\ train_payload.val.selected_train # <<>>
              /\ train_payload.val.selected_train
                     \notin {input.querycode.val, input.querydeparture.val,
                             input.queryarrival.val, input.queryestimatedtime.val}

\* C10 witness: the second of two trains chosen, its value vB submitted
C10_Witness ==
    /\ pc = "await_train"
    /\ Trim(call.line) = <<"2">>
    /\ Len(resp.trains) = 2
    /\ train_payload.val.selected_train = <<"v", "B">>

(***************************************************************************)
(* Properties of confirm_ticket_flow                                       *)
(***************************************************************************)
\* where confirm_ticket_flow holds its finished form
TicketFormPcs == {"submit_ticket", "await_ticket"}

\* the five fields of a passenger entry
PassengerFields ==
    {"passengerDataLastName", "passengerDataFirstName", "passengerDataTypeName",
     "passengerDataIdNumber", "passengerDataInputChoice"}

\* the map is made of the entries 0..n-1, each with its five fields
WholeEntries(m, n) ==
    DOMAIN m = {<<i, f>> : i \in 0..(n - 1), f \in PassengerFields}

\* the number of .superEarlyBird elements of a page
Markers(page) == Len(page.superEarlyBird)

\* the number of those that have a text node
TextMarkers(page) ==
    Cardinality({i \in DOMAIN page.superEarlyBird : page.superEarlyBird[i] # <<>>})

\* C11 as stated: once process_early_bird has returned, the passenger map
\* has one entry of five fields for each .superEarlyBird element of the
\* confirmation page, and there is no map exactly when the page has none.
C11_EntriesEqualMarkers ==
    pc \in TicketFormPcs =>
        /\ ticket.val.early_bird.some <=> Markers(resp) > 0
        /\ ticket.val.early_bird.some
              => WholeEntries(ticket.val.early_bird.val, Markers(resp))

\* C11 amended: once process_early_bird has returned, the passenger map has
\* one entry of five fields for each .superEarlyBird element that has a text
\* node, and there is no map exactly when no such element has one.
C11_EntriesEqualTextMarkers ==
    pc \in TicketFormPcs =>
        /\ ticket.val.early_bird.some <=> TextMarkers(resp) > 0
        /\ ticket.val.early_bird.some
              => WholeEntries(ticket.val.early_bird.val, TextMarkers(resp))

\* C11 witness: two markers, one of them without a text node, one entry
C11_Witness ==
    /\ pc = "await_ticket"
    /\ Markers(resp) = 2 /\ TextMarkers(resp) = 1
    /\ ticket.val.early_bird.some
    /\ WholeEntries(ticket.val.early_bird.val, 1)

\* the number of id numbers in the passenger map so far
IdsCollected ==
    IF ticket.val.early_bird.some
    THEN Cardinality({k \in DOMAIN ticket.val.early_bird.val :
                         k[2] = "passengerDataIdNumber"})
    ELSE 0

\* the ticket form has been sent
TicketPostSent == \E i \in 1..Len(log) : Endpoint(log[i]) = "ticket-confirm"

\* the form waits for n ids: it is sent with n of them only, and while the
\* prompt for a further passenger stands fewer are there and nothing is sent
SubmittedOnlyWith(n) ==
    /\ pc = "await_ticket" => IdsCollected = n
    /\ pc = "input_passenger_id" =>
          /\ IdsCollected >= 1 /\ IdsCollected < n
          /\ ~TicketPostSent

\* at the prompt for a further passenger a blank answer changes nothing and
\* the prompt stands; any other answer is the id of one more passenger
BlankAnswerRepeatsPrompt ==
    (pc = "input_passenger_id" /\ call'.op = "input_passenger_id") =>
        IF Trim(call'.line) = <<>>
        THEN pc' = pc /\ ticket' = ticket /\ log' = log
        ELSE /\ IdsCollected' = IdsCollected + 1
             /\ ticket'.val.early_bird.val[<<IdsCollected, "passengerDataIdNumber">>]
                   = Trim(call'.line)

\* C12 as stated: with n .superEarlyBird elements on the confirmation page
\* the ticket form is sent only once n ids are in the passenger map; at the
\* prompt for each passenger after the first a blank answer is refused and
\* the prompt repeated, and until then no ticket-confirm POST is sent.
C12_BlockedUntilMarkersHaveIds ==
    /\ [](pc \in {"input_passenger_id", "await_ticket"}
             => SubmittedOnlyWith(Markers(resp)))
    /\ [][BlankAnswerRepeatsPrompt]_vars

\* C12 amended: the same, with n the number of .superEarlyBird elements that
\* have a text node.
C12_BlockedUntilTextMarkersHaveIds ==
    /\ [](pc \in {"input_passenger_id", "await_ticket"}
             => SubmittedOnlyWith(TextMarkers(resp)))
    /\ [][BlankAnswerRepeatsPrompt]_vars

\* C12 witness: three markers, two ids given, a blank answer just refused:
\* the prompt stands and no ticket form has been sent
C12_Witness ==
    /\ pc = "input_passenger_id"
    /\ TextMarkers(resp) = 3
    /\ IdsCollected = 2
    /\ call.op = "input_passenger_id" /\ Trim(call.line) = <<>>
    /\ ~TicketPostSent

\* the row indices of the passenger map
PassengerRows == {k[1] : k \in DOMAIN ticket.val.early_bird.val}

\* C13: in every passenger map that is submitted, the id number of every
\* entry, row 0 included, is not empty, and every entry has the passenger
\* type read from the page and the id-kind 0.
C13_EveryEntryHasIdTypeAndKind ==
    (pc = "await_ticket" /\ ticket.val.early_bird.some) =>
        \A i \in PassengerRows :
            LET m == ticket.val.early_bird.val
            IN /\ m[<<i, "passengerDataIdNumber">>] # <<>>
               /\ m[<<i, "passengerDataTypeName">>] = resp.passengerDataTypeName.val
               /\ m[<<i, "passengerDataInputChoice">>] = <<"0">>

\* membership was chosen at process_membership: the flag true, or without a
\* flag the answer "y"
MembershipChosen ==
    IF call.use_membership.some THEN call.use_membership.val
    ELSE Trim(call.line) = <<"y">>

MembershipFieldNames ==
    {"TicketMemberSystemInputPanel:TakerMemberSystemDataView:memberSystemRadioGroup:memberShipNumber",
     "TicketMemberSystemInputPanel:TakerMemberSystemDataView:memberSystemRadioGroup:memberSystemShipCheckBox"}

\* the encoded pieces of a form body, between its separators
Pieces(body) == SelectSeq(body, LAMBDA x : "encoded" \in DOMAIN x)

\* the pairs of a form body that are membership fields
MembershipFields(body) ==
    {pair \in UNION {{piece.encoded[j] : j \in DOMAIN piece.encoded} :
                        piece \in {x \in {Pieces(body)[i] : i \in DOMAIN Pieces(body)} :
                                      x.of = "Vec"}} :
        pair[1] \in MembershipFieldNames}

\* the body of the ticket form that was sent
TicketBody == log[Len(log)].body

\* from process_membership's return to the sending of the form neither the
\* payload nor the membership addendum changes
MembershipKeptUntilSent ==
    pc \in {"process_early_bird", "input_passenger_id", "submit_ticket"} =>
        /\ ticket'.val.add_payload = ticket.val.add_payload
        /\ ticket'.val.payload = ticket.val.payload

\* C14: the membership number and the membership checkbox "on" are in the
\* body of the ticket form if and only if membership was chosen (flag true,
\* or the answer "y"), and the membership radio value of the form is that of
\* #memberSystemRadio1 with membership and of #memberSystemRadio3 without:
\* process_membership returns them so, nothing changes them before the form
\* is sent, and the body sent carries them.
C14_MembershipFieldsIffChosen ==
    /\ [](pc = "process_early_bird" =>
            /\ ticket.val.add_payload.some <=> MembershipChosen
            /\ ticket.val.payload.member_radio =
                  IF MembershipChosen THEN resp.memberSystemRadio1.val
                  ELSE resp.memberSystemRadio3.val)
    /\ [][MembershipKeptUntilSent]_vars
    /\ [](pc = "await_ticket" =>
            /\ TicketBody[1].encoded = ticket.val.payload
            /\ MembershipFields(TicketBody) =
                  IF ticket.val.add_payload.some
                  THEN {<<"TicketMemberSystemInputPanel:TakerMemberSystemDataView:memberSystemRadioGroup:memberShipNumber",
                          ticket.val.payload.personal_id>>,
                        <<"TicketMemberSystemInputPanel:TakerMemberSystemDataView:memberSystemRadioGroup:memberSystemShipCheckBox",
                          <<"o", "n">>>>}
                  ELSE {})

\* C14 witness: a ticket form sent with the membership fields and the value
\* of #memberSystemRadio1
C14_Witness ==
    /\ pc = "await_ticket"
    /\ Cardinality(MembershipFields(TicketBody)) = 2
    /\ TicketBody[1].encoded.member_radio = <<"r", "1">>

\* a separator of a form body
IsSeparator(x) == "sep" \in DOMAIN x

\* the pieces a ticket form is made of: the payload, then the early-bird
\* addendum if there is one, then the membership addendum if there is one
PresentPieces(t) ==
    <<[of |-> "ConfirmTicketPayload", encoded |-> t.payload]>>
    \o (IF t.early_bird.some
        THEN <<[of |-> "HashMap", encoded |-> t.early_bird.val]>> ELSE <<>>)
    \o (IF t.add_payload.some
        THEN <<[of |-> "Vec", encoded |-> t.add_payload.val]>> ELSE <<>>)

\* C15: with or without the early-bird addendum and with or without the
\* membership addendum, the body of the ticket form is the payload followed
\* by the addenda there are, early-bird before membership, with exactly one
\* '&' between two neighbours: none in front, none at the end, no two in a
\* row.
C15_BodyIsPiecesJoinedByAmpersand ==
    pc = "await_ticket" =>
        /\ Pieces(TicketBody) = PresentPieces(ticket.val)
        /\ Len(TicketBody) = 2 * Len(PresentPieces(ticket.val)) - 1
        /\ \A i \in DOMAIN TicketBody :
              IF i % 2 = 1 THEN ~IsSeparator(TicketBody[i])
              ELSE TicketBody[i] = [sep |-> "&"]

\* C15 witness: no early-bird addendum and a membership addendum: the
\* payload, one '&', the membership fields
C15_Witness ==
    /\ pc = "await_ticket"
    /\ ~ticket.val.early_bird.some /\ ticket.val.add_payload.some
    /\ Len(TicketBody) = 3
    /\ TicketBody[3].of = "Vec"

(***************************************************************************)
(* Properties of the functions of the later stages                         *)
(***************************************************************************)
\* the sub-element is there and has a text
HasText(span) == span.some /\ span.val.some

C17_StationsWithinStationTable ==
    pc = "await_booking" =>
        /\ payload.start_station \in 1..Len(STATION_MAP)
        /\ payload.dest_station \in 1..Len(STATION_MAP)

\* a number below 100 as two digits
TwoDigits(n) == <<Digits[(n \div 10) + 1], Digits[(n % 10) + 1]>>

\* the 24-hour value of a time-table token by the conversion rule: 1200 off
\* an A token whose first two digits are 12, 1200 on a P token other than
\* 1230P, any other token as it is
Displayed(token) ==
    LET suffix == token[Len(token)]
        digits == SubSeq(token, 1, Len(token) - 1)
    IN IF suffix = "A" /\ SubSeq(digits, 1, 2) = <<"1", "2">>
       THEN DigitsVal(digits) - 1200
       ELSE IF suffix = "P" /\ token # <<"1", "2", "3", "0", "P">>
            THEN DigitsVal(digits) + 1200
       ELSE DigitsVal(digits)

\* the line of a listing for entry i, counted from 1: "i. HH:MM"
ListingLine(i) ==
    DecStr(i) \o <<".", " ">> \o TwoDigits(Displayed(TIME_TABLE[i]) \div 100)
    \o <<":">> \o TwoDigits(Displayed(TIME_TABLE[i]) % 100)

\* the listing a call printed
Printed == out.val.listing

\* C18: the listing printed by --list-time-table and the listing printed
\* before the time prompt both have one line for each of the 38 tokens, in
\* the table's order, showing the token's 24-hour value by the conversion
\* rule; so the two listings are the same.
C18_ListingsFollowConversionRule ==
    (pc = "unit_done"
       /\ (call.op = "show_time_table" \/ (call.op = "select_time" /\ ~call.time.some)))
    => /\ Len(TIME_TABLE) = 38
       /\ Printed = [i \in 1..38 |-> ListingLine(i)]

\* C18 witness: the listing of the time prompt, the same as that of
\* --list-time-table: 1201A shown as 00:01, 1230P as 12:30, 100P as 13:00
C18_Witness ==
    /\ pc = "unit_done" /\ call.op = "select_time" /\ ~call.time.some
    /\ Printed = show_time_table
    /\ Printed[1] = <<"1", ".", " ", "0", "0", ":", "0", "1">>
    /\ Printed[16] = <<"1", "6", ".", " ", "1", "2", ":", "3", "0">>
    /\ Printed[17] = <<"1", "7", ".", " ", "1", "3", ":", "0", "0">>

\* the page just received has no JSESSIONID cookie
NoSessionCookie(page) == "jsessionid" \in DOMAIN page /\ ~page.jsessionid.some

\* the search page arriving without the cookie ends the run there
AbortsWithoutSessionCookie ==
    (pc = "await_booking_page" /\ NoSessionCookie(resp')) =>
        pc' = "panicked" /\ log' = log /\ payload' = payload

\* a run that has aborted does nothing more
AbortIsFinal == pc \in {"panicked", "halted"} => UNCHANGED vars

\* C19: when the search page comes without a JSESSIONID cookie the run
\* aborts there and does nothing more (no CAPTCHA request, no prompt, no
\* form); and whenever the search form has been sent, its URL is the
\* search-submit URL with the value of that cookie in the place of the
\* session id.
C19_SessionIdRequiredAndEmbedded ==
    /\ [][AbortsWithoutSessionCookie]_vars
    /\ [][AbortIsFinal]_vars
    /\ [](pc = "await_booking" =>
            /\ resp.jsessionid.some
            /\ log[Len(log)].method = "POST"
            /\ log[Len(log)].url =
                  <<"https://irs.thsrc.com.tw/IMINT/;jsessionid=",
                    resp.jsessionid.val,
                    "?wicket:interface=:0:BookingS1Form::IFormSubmitListener">>)

\* C19 witness: the search form sent in the session JB
C19_Witness ==
    /\ pc = "await_booking"
    /\ resp.jsessionid = Some("JB")
    /\ log[3].url[2] = "JB"

\* C19 witness of the abort: the page without the cookie received, the run
\* over after its one request
C19_AbortWitness ==
    /\ pc = "panicked"
    /\ NoSessionCookie(resp)
    /\ Len(log) = 1

\* the number a count field such as 1F carries
CountOf(field) == DigitsVal(SubSeq(field, 1, Len(field) - 1))

\* the tickets a payload asks for, over the five passenger types
TotalTickets(p) ==
    CountOf(p.adult_ticket_num) + CountOf(p.child_ticket_num)
    + CountOf(p.disabled_ticket_num) + CountOf(p.elder_ticket_num)
    + CountOf(p.college_ticket_num)

\* C20: whenever the search form is submitted, its payload asks for at least
\* one ticket: the five counts add up to 1 or more, whatever adult and
\* student counts are given and whatever is typed.
C20_AtLeastOneTicket ==
    pc = "await_booking" => TotalTickets(payload) >= 1

\* the count field of a passenger type
CountField(ticket_type) ==
    CASE ticket_type = "Adult" -> "adult_ticket_num"
      [] ticket_type = "Child" -> "child_ticket_num"
      [] ticket_type = "Disabled" -> "disabled_ticket_num"
      [] ticket_type = "Elder" -> "elder_ticket_num"
      [] ticket_type = "College" -> "college_ticket_num"

\* select_ticket_num for a type leaves every field of p but that type's
\* count as it was, whatever count is given or typed
OnlyOwnCountChanges(p) ==
    \A ticket_type \in TicketTypes,
       val \in {None} \cup {Some(c) : c \in 0..MaxTicketArg \cup {255}},
       line \in RunTicketLines :
        (val.some => line = <<>>) =>
            LET q == select_ticket_num(p, ticket_type, val, line)
            IN q = [p EXCEPT ![CountField(ticket_type)] = q[CountField(ticket_type)]]

\* after the counts are chosen nothing changes them before the form is sent
CountsKeptUntilSent ==
    pc \in {"select_seat_prefer", "select_class_type", "input_security_code",
            "submit_booking"} =>
        \A ticket_type \in TicketTypes :
            payload'[CountField(ticket_type)] = payload[CountField(ticket_type)]

\* C21: select_ticket_num for a passenger type changes that type's count
\* field only; so a run given a student count and no adult count has the
\* adult count 1F beside the student count, the child, disabled and elder
\* counts are 0H, 0W and 0E throughout, and the counts chosen are the counts
\* submitted.
C21_OnlyOwnCountChanges ==
    /\ [](pc \in BookingPcs =>
            /\ OnlyOwnCountChanges(payload)
            /\ payload.child_ticket_num = <<"0", "H">>
            /\ payload.disabled_ticket_num = <<"0", "W">>
            /\ payload.elder_ticket_num = <<"0", "E">>)
    /\ []((pc = "select_seat_prefer" /\ ~call.adult_cnt.some /\ call.student_cnt.some) =>
            /\ payload.adult_ticket_num = <<"1", "F">>
            /\ payload.college_ticket_num =
                  DecStr(IF call.student_cnt.val > 10 THEN 1 ELSE call.student_cnt.val)
                  \o <<"P">>)
    /\ [][CountsKeptUntilSent]_vars

\* C21 witness: a student count of 3 and no adult count given: 1F and 3P
C21_Witness ==
    /\ pc = "select_seat_prefer"
    /\ ~call.adult_cnt.some /\ call.student_cnt = Some(3)
    /\ payload.adult_ticket_num = <<"1", "F">>
    /\ payload.college_ticket_num = <<"3", "P">>

(***************************************************************************)
(* Properties of confirm_train_flow                                        *)
(***************************************************************************)
\* the train form has been sent
TrainPostSent == \E i \in 1..Len(log) : Endpoint(log[i]) = "train-confirm"

\* a selection that is no train of the page ends the run at the prompt:
\* nothing is sent and no payload is made
AbortsOnSelectionOutOfRange ==
    (pc = "select_train" /\ call'.op = "select_available_trains"
       /\ ChosenTrain' \notin 1..Len(resp.trains)) =>
        /\ pc' = "panicked"
        /\ log' = log /\ ~TrainPostSent
        /\ train_payload' = None

\* C22: when the index chosen at the train prompt is outside 1..N, N the
\* number of trains on the page that answered the search form (0 chosen, or
\* more than N, or N = 0), the run aborts there and does nothing more: no
\* train form is sent; and a train form that is sent never has a blank
\* selected-train value, its index being one of 1..N.
C22_SelectionOutOfRangeAborts ==
    /\ [][AbortsOnSelectionOutOfRange]_vars
    /\ [][AbortIsFinal]_vars
    /\ [](pc \in {"submit_train", "await_train"} =>
            /\ ChosenTrain \in 1..Len(resp.trains)
            /\ train_payload.val.selected_train # <<>>)
    /\ [](TrainPostSent => pc \notin {"select_train", "submit_train"})

\* C22 witness: a page without trains and the default selection 1: the run
\* has aborted with the search form its last request
C22_Witness ==
    /\ pc = "panicked"
    /\ call.op = "select_available_trains" /\ Trim(call.line) = <<>>
    /\ resp.trains = <<>>
    /\ ~TrainPostSent /\ Len(log) = 3

====
